---- MODULE Spec2Model ----
(***************************************************************************)
(* Model of the KVM backend's VirtualMachine (src/backend/kvm/vm.rs):      *)
(* VirtualMachine::add_memory and Keep::add_thread for                     *)
(* RwLock<VirtualMachine>, called by several threads of control.           *)
(*                                                                         *)
(* Addresses are bytes.  The machine word is WordBits wide (standing for   *)
(* u64); u64 arithmetic is taken modulo Word, as a release build does.     *)
(* The host's mappable address space is the page frames 1..HostFrames,     *)
(* which is smaller than the word, as a 47-bit user address space is       *)
(* smaller than 2^64.                                                      *)
(***************************************************************************)
EXTENDS Integers, Sequences, FiniteSets, TLC

\* ---- bounds of the model ----
NumProcs == 2
MaxCalls == 3
FreeHostPages == 3
WordBits == 16
Region0Pages == 2
MaxEntries == 2
MaxTime == 2

\* ---- program constants ----
PageSize == 4096

Procs == 1..NumProcs
NoProc == 0
NoId == -1
Word == 2 ^ WordBits
WordPages == Word \div PageSize
HostFrames == Region0Pages + FreeHostPages

\* u64 wrap-around
U64(x) == x % Word

\* page counts the callers pass to add_memory
PagesInputs == {0, 2, WordPages + 1}

VARIABLES
    regions,            \* VirtualMachine.regions: Seq of Region
    id_alloc,           \* VirtualMachine.id_alloc: the Allocator's counter
    shim_entry,         \* VirtualMachine.shim_entry
    shim_start,         \* VirtualMachine.shim_start
    prefix,             \* host addresses of region 0's prefix members
    lock,               \* the RwLock around the VirtualMachine
    maps,               \* host mappings ever created (mmap / Unmap)
    vcpus,              \* vCPU handles ever created by VmFd::create_vcpu
    create_vcpu_calls,  \* ids VmFd::create_vcpu was invoked with, in order
    threads,            \* Thread handles returned by add_thread
    pc,                 \* position of each thread of control
    local,              \* locals of the call each thread of control is in
    calls,              \* the calls made, in order of lock acquisition
    probe_in,           \* what an SGX platform probe finds (sgx/data.rs)
    probe_out           \* the Datum the probe returns

vars == <<regions, id_alloc, shim_entry, shim_start, prefix, lock, maps,
          vcpus, create_vcpu_calls, threads, pc, local, calls,
          probe_in, probe_out>>

probe_vars == <<probe_in, probe_out>>

\* no probe is running / no Datum has been returned
NoProbe == [fn |-> "none"]
NoDatum == [name |-> "none"]

vm_vars == <<regions, id_alloc, shim_entry, shim_start, prefix>>

NoLocal == [op |-> "none", call |-> 0, id |-> NoId, vcpu |-> 0, rsi |-> 0, rdi |-> 0,
            mem_size |-> 0, slot |-> 0, guest_phys_addr |-> 0,
            map |-> 0, addr |-> 0]

\* ---- Region (mem.rs) ----

\* the descriptor handed to the hypervisor (lines 52-58)
KvmUserspaceMemoryRegion(slot, gpa, size, uaddr) ==
    [slot |-> slot, flags |-> 0, guest_phys_addr |-> gpa,
     memory_size |-> size, userspace_addr |-> uaddr]

\* Region::new(slot, descriptor, unmap): the Region stores the slot index it
\* is given and the descriptor, and owns the Unmap handle
Region_new(slot, region, unmap) ==
    [slot |-> slot, kvm_slot |-> region.slot,
     guest_phys_addr |-> region.guest_phys_addr,
     memory_size |-> region.memory_size,
     userspace_addr |-> region.userspace_addr, unmap |-> unmap]

\* Region::as_guest: the guest-physical span
as_guest(r) == [start |-> r.guest_phys_addr, count |-> r.memory_size]

\* Region::as_virt: the host-virtual span
as_virt(r) == [start |-> r.userspace_addr, count |-> r.memory_size]

\* ---- host mappings ----

FrameOf(a) == a \div PageSize

\* frames covered by a live mapping
MappedFrames(ms) ==
    UNION { FrameOf(ms[i].start) .. (FrameOf(ms[i].start + ms[i].count) - 1) :
            i \in { j \in DOMAIN ms : ms[j].state = "mapped" } }

\* first frames of the free ranges that can hold size bytes
FreeFits(ms, size) ==
    { g \in 1..HostFrames :
        /\ g + (size \div PageSize) - 1 <= HostFrames
        /\ (g .. (g + (size \div PageSize) - 1)) \cap MappedFrames(ms) = {} }

\* addresses mmap(0, size, ..., MAP_PRIVATE | MAP_ANONYMOUS) may return: the
\* kernel places the mapping at either end of the free space; none when
\* size = 0 (EINVAL) or no free range is long enough (ENOMEM)
MmapChoices(ms, size) ==
    IF size = 0 \/ size % PageSize # 0 THEN {}
    ELSE LET fits == FreeFits(ms, size)
         IN { f * PageSize : f \in
                { g \in fits : \/ \A h \in fits : g <= h
                               \/ \A h \in fits : g >= h } }

\* dropping an Unmap handle releases its mapping
DropUnmap_Leak(ms, m) == ms

DropUnmap(ms, m) == [ms EXCEPT ![m].state = "released",
                               ![m].releases = @ + 1]

\* ---- vCPU handles ----

\* dropping a VcpuFd closes the handle
DropVcpu_Leak(vs, v) == vs

DropVcpu(vs, v) == IF v = 0 THEN vs ELSE [vs EXCEPT ![v].state = "closed"]

\* ---- the RwLock ----

\* RwLock::write blocks while another holder has the lock
WriteAvailable_NoExclusion(l) == TRUE

WriteAvailable(l) == l.writer = NoProc

\* ---- Id Allocator (cpu.rs) ----
Allocator_next(n) == [id |-> n, counter |-> n + 1]

\* ---- add_memory helpers ----

\* line 64: the slot index add_memory passes to Region::new
NewRegionSlot(rs) == 0

\* line 64: self.regions.push(..)
PushRegion_ReplaceLast(rs, r) == [rs EXCEPT ![Len(rs)] = r]

PushRegion(rs, r) == Append(rs, r)

\* line 33: let mem_size = pages * 4096
MemSize(pages) == U64(pages * PageSize)

\* line 55: last_region.start.as_u64() + last_region.count
NextGuestPhysAddr_NoCount(last_region) == U64(last_region.start)

NextGuestPhysAddr(last_region) == U64(last_region.start + last_region.count)

\* ---- add_thread helpers ----

\* lines 83, 91: host address minus region 0's host-virtual base
GuestOffset_NoBase(host_addr, address_space) == U64(host_addr)

GuestOffset(host_addr, address_space) == U64(host_addr - address_space.start + Word)

\* line 82: regs.rsi = keep.shim_start.as_u64()
BootRsi_Entry(start, entry) == entry

BootRsi(start, entry) == start

Init ==
    /\ \E f0 \in 2..3 :
         /\ regions = << Region_new(0,
                KvmUserspaceMemoryRegion(0, 0, Region0Pages * PageSize, f0 * PageSize),
                1) >>
         /\ maps = << [start |-> f0 * PageSize, count |-> Region0Pages * PageSize,
                       state |-> "mapped", releases |-> 0] >>
         /\ prefix = [shared_pages0 |-> f0 * PageSize,
                      pml4t |-> (f0 + 1) * PageSize]
    /\ id_alloc = 0
    /\ shim_start = PageSize
    /\ shim_entry = PageSize + 16
    /\ lock = [writer |-> NoProc, poisoned |-> FALSE]
    /\ vcpus = << >>
    /\ create_vcpu_calls = << >>
    /\ threads = {}
    /\ pc = [p \in Procs |-> "idle"]
    /\ local = [p \in Procs |-> NoLocal]
    /\ calls = << >>
    /\ probe_in = NoProbe
    /\ probe_out = NoDatum

NewCall(op, pages, outcome) ==
    [op |-> op, pages |-> pages, id |-> NoId, map |-> 0,
     addr |-> 0, outcome |-> outcome]

\* the call of p returns (Ok or Err): the write guard is dropped
Return(p, outcome) ==
    /\ calls' = [calls EXCEPT ![local[p].call].outcome = outcome]
    /\ lock' = [lock EXCEPT !.writer = NoProc]
    /\ pc' = [pc EXCEPT ![p] = "idle"]
    /\ local' = [local EXCEPT ![p] = NoLocal]

\* the call of p panics while holding the write guard: the guard is dropped
\* during unwinding, which poisons the lock; the thread of control ends
PanicHolding(p, outcome) ==
    /\ calls' = [calls EXCEPT ![local[p].call].outcome = outcome]
    /\ lock' = [writer |-> NoProc, poisoned |-> TRUE]
    /\ pc' = [pc EXCEPT ![p] = "dead"]
    /\ local' = [local EXCEPT ![p] = NoLocal]

\* number of calls made so far, those waiting for the lock included
CallsMade == Len(calls) + Cardinality({ q \in Procs : pc[q] = "write" })

\* a thread of control makes a call and arrives at self.write()
Call(p, op) ==
    /\ pc[p] = "idle"
    /\ CallsMade < MaxCalls
    /\ pc' = [pc EXCEPT ![p] = "write"]
    /\ local' = [local EXCEPT ![p] = [NoLocal EXCEPT !.op = op]]
    /\ UNCHANGED <<lock, calls>>

\* self.write().unwrap(): the write guard, or a panic when the lock is poisoned
WriteUnwrap(p, op, pages, next_pc) ==
    /\ pc[p] = "write"
    /\ local[p].op = op
    /\ WriteAvailable(lock)
    /\ IF lock.poisoned
       THEN /\ calls' = Append(calls, NewCall(op, pages, "panic_poisoned"))
            /\ pc' = [pc EXCEPT ![p] = "dead"]
            /\ local' = [local EXCEPT ![p] = NoLocal]
            /\ UNCHANGED lock
       ELSE /\ calls' = Append(calls, NewCall(op, pages, "running"))
            /\ lock' = [lock EXCEPT !.writer = p]
            /\ pc' = [pc EXCEPT ![p] = next_pc]
            /\ local' = [local EXCEPT ![p].call = Len(calls) + 1]

\* ---- add_memory ----

\* a thread of control calls add_memory on the shared VM
AddMemory_call(p) ==
    /\ Call(p, "add_memory")
    /\ UNCHANGED <<probe_vars, vm_vars, maps, vcpus, create_vcpu_calls, threads>>

\* the caller takes the write guard to get &mut VirtualMachine and passes
\* the page count
AddMemory_write(p) ==
    /\ \E pages \in PagesInputs : WriteUnwrap(p, "add_memory", pages, "mmap")
    /\ UNCHANGED <<probe_vars, vm_vars, maps, vcpus, create_vcpu_calls, threads>>

\* lines 33-58: size, last region, host mapping, Unmap guard, descriptor
AddMemory_mmap(p) ==
    /\ pc[p] = "mmap"
    /\ LET c == local[p].call
           mem_size == MemSize(calls[c].pages)
           last_region == as_guest(regions[Len(regions)])
       IN \/ /\ Return(p, "err_mmap")
             /\ UNCHANGED maps
          \/ \E a \in MmapChoices(maps, mem_size) :
               /\ maps' = Append(maps, [start |-> a, count |-> mem_size,
                                        state |-> "mapped", releases |-> 0])
               /\ local' = [local EXCEPT ![p].mem_size = mem_size,
                                         ![p].slot = Len(regions),
                                         ![p].guest_phys_addr = NextGuestPhysAddr(last_region),
                                         ![p].map = Len(maps) + 1,
                                         ![p].addr = a]
               /\ calls' = [calls EXCEPT ![c].map = Len(maps) + 1, ![c].addr = a]
               /\ pc' = [pc EXCEPT ![p] = "set_user_memory_region"]
               /\ UNCHANGED lock
    /\ UNCHANGED <<probe_vars, vm_vars, vcpus, create_vcpu_calls, threads>>

\* lines 60-66: registration with the hypervisor, push, return
AddMemory_set_user_memory_region(p) ==
    /\ pc[p] = "set_user_memory_region"
    /\ \/ /\ regions' = PushRegion(regions,
                 Region_new(NewRegionSlot(regions),
                            KvmUserspaceMemoryRegion(local[p].slot,
                                local[p].guest_phys_addr, local[p].mem_size,
                                local[p].addr),
                            local[p].map))
          /\ Return(p, "ok")
          /\ UNCHANGED maps
       \/ /\ maps' = DropUnmap(maps, local[p].map)
          /\ Return(p, "err_set_user_memory_region")
          /\ UNCHANGED regions
    /\ UNCHANGED <<probe_vars, id_alloc, shim_entry, shim_start, prefix, vcpus,
                   create_vcpu_calls, threads>>

\* ---- add_thread (Keep for RwLock<VirtualMachine>) ----

\* a hypervisor step of add_thread fails: the ? operator returns the error, the locals
\* (the VcpuFd among them) are dropped, then the write guard
FailReturn(p, outcome) ==
    /\ vcpus' = DropVcpu(vcpus, local[p].vcpu)
    /\ Return(p, outcome)

\* a thread of control calls add_thread on the shared VM
AddThread_call(p) ==
    /\ Call(p, "add_thread")
    /\ UNCHANGED <<probe_vars, vm_vars, maps, vcpus, create_vcpu_calls, threads>>

\* line 72: let mut keep = self.write().unwrap()
AddThread_write(p) ==
    /\ WriteUnwrap(p, "add_thread", 0, "next")
    /\ UNCHANGED <<probe_vars, vm_vars, maps, vcpus, create_vcpu_calls, threads>>

\* lines 73-76: id allocation, region 0 lookup
AddThread_next(p) ==
    /\ pc[p] = "next"
    /\ LET n == Allocator_next(id_alloc)
       IN /\ id_alloc' = n.counter
          /\ local' = [local EXCEPT ![p].id = n.id]
          /\ calls' = [calls EXCEPT ![local[p].call].id = n.id]
    /\ pc' = [pc EXCEPT ![p] = "create_vcpu"]
    /\ UNCHANGED <<probe_vars, regions, shim_entry, shim_start, prefix, lock,
                   maps, vcpus, create_vcpu_calls, threads>>

\* line 78: let vcpu = keep.fd.create_vcpu(id as _)?
AddThread_create_vcpu(p) ==
    /\ pc[p] = "create_vcpu"
    /\ create_vcpu_calls' = Append(create_vcpu_calls, local[p].id)
    /\ \/ /\ vcpus' = Append(vcpus, [id |-> local[p].id, call |-> local[p].call,
                                     state |-> "live", rsi |-> 0, rdi |-> 0,
                                     cpuid |-> FALSE])
          /\ local' = [local EXCEPT ![p].vcpu = Len(vcpus) + 1]
          /\ pc' = [pc EXCEPT ![p] = "get_regs"]
          /\ UNCHANGED <<lock, calls>>
       \/ FailReturn(p, "err_create_vcpu")
    /\ UNCHANGED <<probe_vars, vm_vars, maps, threads>>

\* line 81: if id == 0
IsBootCpu_Any(id) == TRUE

IsBootCpu(id) == id = 0

\* lines 80-86: get_regs, then the boot registers for id 0, unimplemented!()
\* for any other id
AddThread_get_regs(p) ==
    /\ pc[p] = "get_regs"
    /\ \/ /\ IsBootCpu(local[p].id)
          /\ local' = [local EXCEPT
                 ![p].rsi = BootRsi(shim_start, shim_entry),
                 ![p].rdi = GuestOffset(prefix.shared_pages0, as_virt(regions[1]))]
          /\ pc' = [pc EXCEPT ![p] = "set_regs"]
          /\ UNCHANGED <<lock, calls, vcpus>>
       \/ /\ ~IsBootCpu(local[p].id)
          /\ vcpus' = DropVcpu(vcpus, local[p].vcpu)
          /\ PanicHolding(p, "panic_unimplemented")
       \/ FailReturn(p, "err_get_regs")
    /\ UNCHANGED <<probe_vars, vm_vars, maps, create_vcpu_calls, threads>>

\* line 88: vcpu.set_regs(&regs)?
AddThread_set_regs(p) ==
    /\ pc[p] = "set_regs"
    /\ \/ /\ vcpus' = [vcpus EXCEPT ![local[p].vcpu].rsi = local[p].rsi,
                                    ![local[p].vcpu].rdi = local[p].rdi]
          /\ pc' = [pc EXCEPT ![p] = "get_supported_cpuid"]
          /\ UNCHANGED <<lock, calls, local>>
       \/ FailReturn(p, "err_set_regs")
    /\ UNCHANGED <<probe_vars, vm_vars, maps, create_vcpu_calls, threads>>

\* line 89, argument: keep.kvm.get_supported_cpuid(KVM_MAX_CPUID_ENTRIES)?
AddThread_get_supported_cpuid(p) ==
    /\ pc[p] = "get_supported_cpuid"
    /\ \/ /\ pc' = [pc EXCEPT ![p] = "set_cpuid2"]
          /\ UNCHANGED <<lock, calls, local, vcpus>>
       \/ FailReturn(p, "err_get_supported_cpuid")
    /\ UNCHANGED <<probe_vars, vm_vars, maps, create_vcpu_calls, threads>>

\* line 89: vcpu.set_cpuid2(..)?
AddThread_set_cpuid2(p) ==
    /\ pc[p] = "set_cpuid2"
    /\ \/ /\ vcpus' = [vcpus EXCEPT ![local[p].vcpu].cpuid = TRUE]
          /\ pc' = [pc EXCEPT ![p] = "cpu_new"]
          /\ UNCHANGED <<lock, calls, local>>
       \/ FailReturn(p, "err_set_cpuid2")
    /\ UNCHANGED <<probe_vars, vm_vars, maps, create_vcpu_calls, threads>>

\* lines 91-94: cr3, Cpu::new(vcpu, id, keep, shim_entry, cr3)?, Ok(thread)
AddThread_cpu_new(p) ==
    /\ pc[p] = "cpu_new"
    /\ \/ /\ threads' = threads \cup
                 { [id |-> local[p].id, vcpu |-> local[p].vcpu,
                    call |-> local[p].call, entry |-> shim_entry,
                    cr3 |-> GuestOffset(prefix.pml4t, as_virt(regions[1]))] }
          /\ Return(p, "ok")
          /\ UNCHANGED vcpus
       \/ /\ FailReturn(p, "err_cpu_new")
          /\ UNCHANGED threads
    /\ UNCHANGED <<probe_vars, vm_vars, maps, create_vcpu_calls>>

Next ==
    \E p \in Procs :
        \/ AddMemory_call(p)
        \/ AddMemory_write(p)
        \/ AddMemory_mmap(p)
        \/ AddMemory_set_user_memory_region(p)
        \/ AddThread_call(p)
        \/ AddThread_write(p)
        \/ AddThread_next(p)
        \/ AddThread_create_vcpu(p)
        \/ AddThread_get_regs(p)
        \/ AddThread_set_regs(p)
        \/ AddThread_get_supported_cpuid(p)
        \/ AddThread_set_cpuid2(p)
        \/ AddThread_cpu_new(p)

Spec == Init /\ [][Next]_vars

\* ---------------------------------------------------------------------
\* SGX platform probes (src/backend/sgx/data.rs)
\* ---------------------------------------------------------------------

Times == 0..MaxTime
NoTime == -1
Results == {"ok", "err"}

\* (message texts are those of the source, without its backquotes)

\* Datum { name, pass, info, mesg, data: vec![] }; looked = the files the
\* probe examined
Datum(name, pass, info, mesg, looked) ==
    [name |-> name, pass |-> pass, info |-> info, mesg |-> mesg,
     looked |-> looked]

\* ---- intel_crl (lines 192-283) ----

CRL_NAME == "Intel CRL cache file"
UPDATE_MSG == "Run enarx platform sgx cache-crl to generate the Intel CRL cache file"
CACHE_DIR_MSG == "enarx expects the directory /var/cache/intel-sgx to exist and be readable"

\* a CRL entry: its next-update time, if any, and what SystemTime::now()
\* returns when the loop looks at it
CrlEntry == [next_update : {NoTime} \cup Times, now : Times]

CrlEntryLists == UNION { [1..n -> CrlEntry] : n \in 0..MaxEntries }

\* what intel_crl finds on the platform
CrlEnvs == [cache_dir : Results, exists : BOOLEAN, read : Results,
            from_der : Results, entries : CrlEntryLists,
            list_next_update : BOOLEAN]

\* line 250: update.to_system_time() <= SystemTime::now()
CrlStale_Strict(update, now) == update < now

CrlStale(update, now) == update <= now

\* lines 248-260: the loop returns at the first entry that has a next-update
\* time and is stale
AnyStale(entries) ==
    \E i \in DOMAIN entries :
        /\ entries[i].next_update # NoTime
        /\ CrlStale(entries[i].next_update, entries[i].now)

intel_crl(env) ==
    IF env.cache_dir = "err"
    THEN Datum(CRL_NAME, FALSE, "cache dir error", CACHE_DIR_MSG, {})
    ELSE IF ~env.exists
    THEN Datum(CRL_NAME, FALSE, "None", UPDATE_MSG, {"crls.der"})
    ELSE IF env.read = "err"
    THEN Datum(CRL_NAME, FALSE, "read error", UPDATE_MSG, {"crls.der"})
    ELSE IF env.from_der = "err"
    THEN Datum(CRL_NAME, FALSE, "decode error", UPDATE_MSG, {"crls.der"})
    ELSE IF AnyStale(env.entries)
    THEN Datum(CRL_NAME, FALSE, "None", UPDATE_MSG, {"crls.der"})
    ELSE IF env.list_next_update
    THEN Datum(CRL_NAME, TRUE, "path, next update", "None", {"crls.der"})
    ELSE Datum(CRL_NAME, TRUE, "path", "None", {"crls.der"})

\* ---- tcb_fmspc_cached (lines 285-451) ----

TCB_NAME == "TCB & FMSPC cache"
TCB_INSTRUCTION == "Run enarx platform sgx cache-tcb"
PCK_INSTRUCTION == "Run enarx platform sgx cache-pck"

\* what tcb_fmspc_cached finds on the platform
TcbEnvs == [fmspc_exists : BOOLEAN, tcb_exists : BOOLEAN, read : Results,
            from_der : Results, from_utf8 : Results, from_str : Results,
            has_tcbInfo : BOOLEAN, has_nextUpdate : BOOLEAN,
            nextUpdate_is_str : BOOLEAN, parse_from_rfc3339 : Results,
            next_update : Times, now : Times]

\* line 421: next_update < now
Expired_OrNow(next_update, now) == next_update <= now

Expired(next_update, now) == next_update < now

tcb_fmspc_cached(env) ==
    IF ~env.fmspc_exists
    THEN Datum(TCB_NAME, FALSE, "Missing FMSPC", PCK_INSTRUCTION, {"FMSPC_PATH"})
    ELSE LET both == {"FMSPC_PATH", "TCB_PATH"}
             Fail(info) == Datum(TCB_NAME, FALSE, info, TCB_INSTRUCTION, both)
         IN IF ~env.tcb_exists
            THEN Fail("Missing TCB report")
            ELSE IF env.read = "err"
            THEN Fail("Unable to read TCB report: {e}")
            ELSE IF env.from_der = "err"
            THEN Fail("Unable to decode TCB report: {e}")
            ELSE IF env.from_utf8 = "err"
            THEN Fail("Unable to decode JSON TCB report: {e}")
            ELSE IF env.from_str = "err"
            THEN Fail("Unable to decode JSON TCB report: {e}")
            ELSE IF ~env.has_tcbInfo
            THEN Fail("Unable to decode JSON TCB report, missing tcbInfo field")
            ELSE IF ~env.has_nextUpdate
            THEN Fail("Unable to decode JSON TCB report, missing tcbInfo.nextUpdate field")
            ELSE IF ~env.nextUpdate_is_str
            THEN Fail("Unable to decode JSON TCB report, unable to decode tcbInfo.nextUpdate field")
            ELSE IF env.parse_from_rfc3339 = "err"
            THEN Fail("Unable to decode timestamp in JSON TCB report: {e}")
            ELSE IF Expired(env.next_update, env.now)
            THEN Fail("Intel TCB expired on {next_update}, {elapsed} ago")
            ELSE Datum(TCB_NAME, TRUE, "Next update: {next_update}", "None", both)

\* ---- the probes as a state machine ----

\* the VM part of the state plays no role in the probes
InitData ==
    /\ regions = << >>
    /\ maps = << >>
    /\ prefix = [shared_pages0 |-> 0, pml4t |-> 0]
    /\ id_alloc = 0
    /\ shim_start = 0
    /\ shim_entry = 0
    /\ lock = [writer |-> NoProc, poisoned |-> FALSE]
    /\ vcpus = << >>
    /\ create_vcpu_calls = << >>
    /\ threads = {}
    /\ pc = [p \in Procs |-> "idle"]
    /\ local = [p \in Procs |-> NoLocal]
    /\ calls = << >>
    /\ probe_out = NoDatum
    /\ \/ \E env \in CrlEnvs : probe_in = [fn |-> "intel_crl", env |-> env]
       \/ \E env \in TcbEnvs : probe_in = [fn |-> "tcb_fmspc_cached", env |-> env]

ProbeFrame ==
    UNCHANGED <<vm_vars, lock, maps, vcpus, create_vcpu_calls, threads, pc,
                local, calls, probe_in>>

IntelCrl ==
    /\ probe_in.fn = "intel_crl"
    /\ probe_out = NoDatum
    /\ probe_out' = intel_crl(probe_in.env)
    /\ ProbeFrame

TcbFmspcCached ==
    /\ probe_in.fn = "tcb_fmspc_cached"
    /\ probe_out = NoDatum
    /\ probe_out' = tcb_fmspc_cached(probe_in.env)
    /\ ProbeFrame

NextData == IntelCrl \/ TcbFmspcCached

SpecData == InitData /\ [][NextData]_vars

\* ---------------------------------------------------------------------
\* Properties
\* ---------------------------------------------------------------------

AddMemoryErrors == {"err_mmap", "err_set_user_memory_region"}
HvErrors == {"err_create_vcpu", "err_get_regs", "err_set_regs",
             "err_get_supported_cpuid", "err_set_cpuid2", "err_cpu_new"}
Panics == {"panic_unimplemented", "panic_poisoned"}

\* the add_thread calls, in call order
ThreadCalls == SelectSeq(calls, LAMBDA c : c.op = "add_thread")

\* C1: after any sequence of add_memory calls, successful or failed, each
\* region starts where the region before it ends, and the guest-physical
\* ranges of the regions are pairwise disjoint.
C1_RegionsContiguous ==
    /\ \A i \in 2..Len(regions) :
         regions[i].guest_phys_addr =
             regions[i-1].guest_phys_addr + regions[i-1].memory_size
    /\ \A i, j \in DOMAIN regions :
         i < j => regions[i].guest_phys_addr + regions[i].memory_size
                      <= regions[j].guest_phys_addr

C1_Witness ==
    /\ Len(regions) = 3
    /\ \E c \in DOMAIN calls : /\ calls[c].op = "add_memory"
                               /\ calls[c].outcome \in AddMemoryErrors

\* the state a serial execution of the first k logged calls, in log order
\* and with the logged results of the external calls, leaves behind
RECURSIVE Serial(_)
Serial(k) ==
    IF k = 0
    THEN [regions |-> << regions[1] >>, counter |-> 0, poisoned |-> FALSE,
          consistent |-> TRUE]
    ELSE LET s == Serial(k - 1)
             c == calls[k]
         IN IF s.poisoned
            THEN [s EXCEPT !.consistent =
                     @ /\ c.outcome = "panic_poisoned" /\ c.id = NoId]
            ELSE IF c.op = "add_memory"
            THEN IF c.outcome = "ok"
                 THEN [s EXCEPT !.regions = Append(@,
                          [slot |-> 0, kvm_slot |-> Len(s.regions),
                           guest_phys_addr |->
                               s.regions[Len(s.regions)].guest_phys_addr
                               + s.regions[Len(s.regions)].memory_size,
                           memory_size |-> (c.pages * PageSize) % Word,
                           userspace_addr |-> c.addr,
                           unmap |-> c.map])]
                 ELSE [s EXCEPT !.consistent =
                          @ /\ c.outcome \in AddMemoryErrors \cup {"running"}]
            ELSE IF c.id = NoId
            THEN [s EXCEPT !.consistent = @ /\ c.outcome = "running"]
            ELSE [s EXCEPT !.counter = @ + 1,
                           !.poisoned = (c.outcome = "panic_unimplemented"),
                           !.consistent = @ /\ c.id = s.counter
                                            /\ (c.outcome = "ok" => c.id = 0)
                                            /\ c.outcome # "panic_poisoned"]

\* C2: under every interleaving of concurrent add_thread and add_memory
\* calls, no two regions overlap, no two calls were assigned the same id,
\* and the region list, the allocator and the ids issued are those of the
\* serial execution of the calls in the order they took the lock.
C2_Serializable ==
    /\ \A i, j \in DOMAIN regions :
         i < j => regions[i].guest_phys_addr + regions[i].memory_size
                      <= regions[j].guest_phys_addr
    /\ \A c, d \in DOMAIN calls :
         (c # d /\ calls[c].id # NoId) => calls[c].id # calls[d].id
    /\ LET s == Serial(Len(calls))
       IN /\ s.consistent
          /\ regions = s.regions
          /\ id_alloc = s.counter
          /\ lock.poisoned = s.poisoned

C2_Witness ==
    \E p, q \in Procs :
        /\ p # q
        /\ lock.writer = p
        /\ pc[p] = "set_user_memory_region"
        /\ pc[q] = "write"
        /\ local[q].op = "add_thread"
        /\ Len(regions) >= 2

\* C3: create_vcpu is never invoked with an id other than 0.
C3_NoVcpuForLaterIds ==
    \A i \in DOMAIN create_vcpu_calls : create_vcpu_calls[i] = 0

\* C4: the k-th add_thread call (counting from 0) is assigned id k.
C4_KthCallGetsIdK ==
    \A k \in DOMAIN ThreadCalls :
        (ThreadCalls[k].outcome # "running" \/ ThreadCalls[k].id # NoId)
            => ThreadCalls[k].id = k - 1

\* C5: when the mapping step of add_memory succeeded and the hypervisor
\* rejects the registration, add_memory returns an error, the mapping it
\* created is released, and the region list is what it was before the call.
C5_RegistrationFailureReleases ==
    [][\A p \in Procs :
         (/\ pc[p] = "set_user_memory_region"
          /\ pc'[p] # "set_user_memory_region"
          /\ calls'[local[p].call].outcome # "ok")
         => /\ calls'[local[p].call].outcome = "err_set_user_memory_region"
            /\ pc'[p] = "idle"
            /\ regions' = regions
            /\ maps'[local[p].map].state = "released"
            /\ maps'[local[p].map].releases = 1]_vars

C5_Witness ==
    \E c \in DOMAIN calls :
        /\ calls[c].outcome = "err_set_user_memory_region"
        /\ maps[calls[c].map].state = "released"
        /\ Len(regions) >= 2

\* C6: a second or later add_thread call reports "unsupported" as a returned
\* error value: a call assigned an id other than 0 never ends in a panic.
C6_LaterCallReturnsError ==
    \A c \in DOMAIN calls :
        (calls[c].op = "add_thread" /\ calls[c].id # NoId /\ calls[c].id # 0)
            => calls[c].outcome \notin Panics

\* the first add_thread call made on the VM
IsFirstThreadCall(c) ==
    /\ calls[c].op = "add_thread"
    /\ \A d \in 1..(c - 1) : calls[d].op # "add_thread"

\* C7: the first add_thread call, when no hypervisor call fails, returns an
\* id-0 handle, with rsi = shim_start, rdi = (host address of region 0's
\* first shared page) - (region 0's host-virtual base) and cr3 = (host
\* address of region 0's top-level page table) - (that base).
C7_FirstThreadBootState ==
    \A c \in DOMAIN calls :
        IsFirstThreadCall(c) =>
            /\ calls[c].outcome \in {"running", "ok"} \cup HvErrors
            /\ calls[c].outcome = "ok" =>
                 \E t \in threads :
                    /\ t.call = c
                    /\ t.id = 0
                    /\ vcpus[t.vcpu].id = 0
                    /\ vcpus[t.vcpu].state = "live"
                    /\ vcpus[t.vcpu].rsi = shim_start
                    /\ vcpus[t.vcpu].rdi =
                           prefix.shared_pages0 - regions[1].userspace_addr
                    /\ t.cr3 = prefix.pml4t - regions[1].userspace_addr

C7_Witness ==
    \E c \in DOMAIN calls :
        /\ IsFirstThreadCall(c)
        /\ calls[c].outcome = "ok"
        /\ c > 1
        /\ \E t \in threads : t.call = c /\ t.cr3 > 0

C9_FailedThreadLeavesNoVcpu ==
    \A c \in DOMAIN calls :
        (calls[c].op = "add_thread" /\ calls[c].outcome \in HvErrors)
            => /\ \A t \in threads : t.call # c /\ t.id # calls[c].id
               /\ \A v \in DOMAIN vcpus :
                    vcpus[v].call = c => vcpus[v].state = "closed"

C9_Witness ==
    \E c \in DOMAIN calls :
        /\ calls[c].outcome = "err_set_cpuid2"
        /\ \E v \in DOMAIN vcpus : vcpus[v].call = c /\ vcpus[v].state = "closed"

\* C10: every add_thread call advances the Id Allocator exactly once: the
\* counter equals the number of add_thread calls that have got past the
\* allocation step or have ended.
C10_CounterCountsCalls ==
    id_alloc = Cardinality({ c \in DOMAIN calls :
                               /\ calls[c].op = "add_thread"
                               /\ (calls[c].id # NoId \/ calls[c].outcome # "running") })

\* C11: each Region's stored slot index equals its position in the region
\* list, the regions appended by add_memory included.
C11_SlotIsPosition ==
    \A i \in DOMAIN regions : regions[i].slot = i - 1

\* C12: a region is appended only for a page count > 0, and its memory_size
\* and the size of its host mapping equal pages * 4096 exactly, without
\* wrap-around.
C12_SizeIsPagesTimes4096 ==
    \A i \in 2..Len(regions) :
        \E c \in DOMAIN calls :
            /\ calls[c].op = "add_memory"
            /\ calls[c].map = regions[i].unmap
            /\ calls[c].pages > 0
            /\ regions[i].memory_size = calls[c].pages * PageSize
            /\ maps[regions[i].unmap].count = calls[c].pages * PageSize

\* positions of a thread of control inside the body of add_thread
ThreadSteps == {"next", "create_vcpu", "get_regs", "set_regs",
                "get_supported_cpuid", "set_cpuid2", "cpu_new"}

\* positions of a thread of control inside the body of add_memory
MemorySteps == {"mmap", "set_user_memory_region"}

\* C13: add_thread holds the write lock from before the id allocation until
\* after the last hypervisor step: while a call is between these steps no
\* other call is inside add_thread or add_memory, and a step that is not
\* this call's leaves the VM, the vCPUs, the mappings and the call log alone.
C13_AddThreadExclusive ==
    [][\A p \in Procs :
         pc[p] \in ThreadSteps =>
            /\ lock.writer = p
            /\ \A q \in Procs \ {p} : pc[q] \notin ThreadSteps \cup MemorySteps
            /\ pc'[p] = pc[p] =>
                 UNCHANGED <<probe_vars, vm_vars, lock, maps, vcpus, create_vcpu_calls,
                             threads, calls>>]_vars

C13_Witness ==
    \E p, q \in Procs :
        /\ p # q
        /\ pc[p] = "set_cpuid2"
        /\ pc[q] = "write"
        /\ lock.writer = p

\* the thread of control taking the step, if the step is inside a call
Stepper(p) == pc[p] \in ThreadSteps \cup MemorySteps /\ pc'[p] # pc[p]

\* C14: the region list is append-only and each operation touches only its
\* part of the VM: a successful add_memory appends one region and leaves the
\* others unchanged, a failed add_memory changes nothing, add_memory never
\* changes the Id Allocator or the shim addresses, add_thread never changes
\* the region list or the shim addresses.
C14_FrameEffects ==
    [][/\ \/ regions' = regions
          \/ /\ Len(regions') = Len(regions) + 1
             /\ SubSeq(regions', 1, Len(regions)) = regions
       /\ UNCHANGED <<shim_entry, shim_start>>
       /\ \A p \in Procs :
            /\ (Stepper(p) /\ local[p].op = "add_memory") =>
                 /\ id_alloc' = id_alloc
                 /\ calls'[local[p].call].outcome = "ok" =>
                      Len(regions') = Len(regions) + 1
                 /\ calls'[local[p].call].outcome # "ok" => regions' = regions
            /\ (Stepper(p) /\ local[p].op = "add_thread") =>
                 regions' = regions]_vars

C14_Witness ==
    /\ Len(regions) >= 2
    /\ id_alloc >= 1
    /\ \E c \in DOMAIN calls : calls[c].outcome \in AddMemoryErrors

\* C15: every host mapping created by add_memory is either mapped and owned
\* by exactly one Region, or released; none is released twice or owned by
\* two Regions, and outside the call that created it none is mapped without
\* an owning Region.
C15_MappingOwnership ==
    \A m \in 2..Len(maps) :
        LET owners == { i \in DOMAIN regions : regions[i].unmap = m }
            creating == { p \in Procs : /\ pc[p] = "set_user_memory_region"
                                        /\ local[p].map = m }
        IN /\ maps[m].releases <= 1
           /\ Cardinality(owners) <= 1
           /\ maps[m].state = "mapped" =>
                /\ maps[m].releases = 0
                /\ Cardinality(owners) = 1 \/ creating # {}
           /\ maps[m].state = "released" =>
                /\ owners = {}
                /\ maps[m].releases = 1

C15_Witness ==
    \E m, n \in 2..Len(maps) :
        /\ maps[m].state = "released"
        /\ maps[n].state = "mapped"
        /\ \E i \in DOMAIN regions : regions[i].unmap = n
        /\ \A p \in Procs : pc[p] \notin MemorySteps

\* C16: at most one add_thread call ever returns a Thread handle, and only
\* the first call can: when the first call failed, no later call succeeds.
C16_OnlyFirstCallSucceeds ==
    /\ Cardinality(threads) <= 1
    /\ \A c \in DOMAIN calls :
         (calls[c].op = "add_thread" /\ calls[c].outcome = "ok")
            => IsFirstThreadCall(c)
    /\ \A t \in threads : IsFirstThreadCall(t.call)

C16_Witness ==
    /\ Len(ThreadCalls) >= 2
    /\ ThreadCalls[1].outcome \in HvErrors
    /\ ThreadCalls[2].outcome \in HvErrors \cup Panics

\* C17: a failed add_thread call leaves the shared VM usable: a later
\* add_thread call takes the lock and runs instead of aborting at the lock.
C17_LaterCallsNotAborted ==
    \A c \in DOMAIN calls :
        calls[c].op = "add_thread" => calls[c].outcome # "panic_poisoned"

\* C18: intel_crl reports pass = true only if the cache directory resolves,
\* the CRL file exists, is read and decodes, and every entry that carries a
\* next-update time has it strictly later than the current time; every
\* failing outcome other than a cache-directory error carries UPDATE_MSG.
C18_CrlPassOnlyIfFresh ==
    (probe_in.fn = "intel_crl" /\ probe_out # NoDatum) =>
        LET env == probe_in.env
        IN /\ probe_out.pass =>
                /\ env.cache_dir = "ok"
                /\ env.exists
                /\ env.read = "ok"
                /\ env.from_der = "ok"
                /\ \A i \in DOMAIN env.entries :
                     env.entries[i].next_update # NoTime =>
                        env.entries[i].next_update > env.entries[i].now
           /\ (~probe_out.pass /\ env.cache_dir = "ok") =>
                probe_out.mesg = UPDATE_MSG

C18_Witness ==
    /\ probe_in.fn = "intel_crl"
    /\ probe_out # NoDatum
    /\ ~probe_out.pass
    /\ probe_out.mesg = UPDATE_MSG
    /\ probe_in.env.cache_dir = "ok" /\ probe_in.env.exists
    /\ probe_in.env.read = "ok" /\ probe_in.env.from_der = "ok"
    /\ Len(probe_in.env.entries) = 2
    /\ probe_in.env.entries[1].next_update = NoTime
    /\ probe_in.env.entries[2].next_update = probe_in.env.entries[2].now

\* the checks of tcb_fmspc_cached in the order the claim gives them, with
\* the report each makes when it is the first to fail
TcbChecks(env) ==
    << [ok |-> env.fmspc_exists, info |-> "Missing FMSPC"],
       [ok |-> env.tcb_exists, info |-> "Missing TCB report"],
       [ok |-> env.read = "ok", info |-> "Unable to read TCB report: {e}"],
       [ok |-> env.from_der = "ok", info |-> "Unable to decode TCB report: {e}"],
       [ok |-> env.from_utf8 = "ok" /\ env.from_str = "ok",
        info |-> "Unable to decode JSON TCB report: {e}"],
       [ok |-> env.has_tcbInfo,
        info |-> "Unable to decode JSON TCB report, missing tcbInfo field"],
       [ok |-> env.has_nextUpdate,
        info |-> "Unable to decode JSON TCB report, missing tcbInfo.nextUpdate field"],
       [ok |-> env.nextUpdate_is_str,
        info |-> "Unable to decode JSON TCB report, unable to decode tcbInfo.nextUpdate field"],
       [ok |-> env.parse_from_rfc3339 = "ok",
        info |-> "Unable to decode timestamp in JSON TCB report: {e}"] >>

\* C19: tcb_fmspc_cached reports the first check that fails, in the fixed
\* order; a missing FMSPC file is reported before the TCB file is looked at;
\* pass = true exactly when every check succeeds and nextUpdate is not
\* earlier than the current time.
C19_TcbFirstFailure ==
    (probe_in.fn = "tcb_fmspc_cached" /\ probe_out # NoDatum) =>
        LET env == probe_in.env
            checks == TcbChecks(env)
            failing == { i \in DOMAIN checks : ~checks[i].ok }
        IN /\ \A i \in failing :
                (\A j \in failing : i <= j) =>
                    /\ ~probe_out.pass
                    /\ probe_out.info = checks[i].info
           /\ ~env.fmspc_exists =>
                /\ "TCB_PATH" \notin probe_out.looked
                /\ probe_out.mesg = PCK_INSTRUCTION
           /\ probe_out.pass <=> (failing = {} /\ env.next_update >= env.now)

C19_Witness ==
    /\ probe_in.fn = "tcb_fmspc_cached"
    /\ probe_out # NoDatum
    /\ probe_out.pass
    /\ probe_in.env.next_update = probe_in.env.now

====
